---- MODULE Spec2Model ----
(***************************************************************************)
(* A model of the request-and-stream translation layer of the chat UI:     *)
(* the edge handler of pages/api/chat.ts (URL validation, payload          *)
(* building, CA-RAG session initialisation, outbound calls) and its two    *)
(* stream transformers, processGenerateStream and processChatStream.       *)
(*                                                                         *)
(* Text is modelled as a sequence of atoms: each atom is a piece of text   *)
(* that is never cut further.  A chunk boundary can fall between any two   *)
(* atoms, so the atoms are chosen to let a boundary fall between a line    *)
(* prefix and its payload, inside a JSON payload, and at a newline.        *)
(***************************************************************************)
EXTENDS Integers, Sequences, FiniteSets, TLC

VARIABLES
    \* ---- one run of a stream transformer ----
    variant,          \* "generate" (processGenerateStream) or "chat" (processChatStream)
    enableSteps,      \* additionalProps.enableIntermediateSteps
    fullText,         \* the whole upstream body (history: never changes)
    upstream,         \* the part of the upstream body not yet read
    buffer,           \* let buffer
    streamContent,    \* let streamContent (generate only)
    finalAnswerSent,  \* let finalAnswerSent (generate only)
    counter,          \* let counter
    out,              \* the chunks handed to controller.enqueue, in call order
    queue,            \* the controller's queue: enqueued, not yet read downstream
    streamState,      \* the output stream: "readable" | "closed" | "errored"
    delivered,        \* the chunks the reader of the output has received, in order
    cancelled,        \* history: the reader of the output cancelled it
    closeCalls,       \* how many times controller.close() was invoked
    released,         \* reader.releaseLock() was reached
    spc,              \* position of start(controller): "reading", "done" (it has
                      \* returned or thrown), "settled" (its promise was reacted to)
    exit,             \* how the run left its loop: "none" | "sentinel" (a [DONE] line) |
                      \* "end" (read done) | "error" (read rejected) | "throw" (enqueue threw)
    startResult,      \* the promise of start(): "pending" | "fulfilled" | "rejected"
    carried,          \* history: some chunk ended inside a line, which buffer carried over
    \* ---- the edge handler and the process it runs in ----
    env,              \* process.env: NODE_ENV, NAT_BACKEND_URL, NEXT_PUBLIC_NAT_BACKEND_ADDRESS
    initializedConversations,   \* the Set closed over by buildContextAwareRAGPayload
    req,              \* per request slot: its input, its position and what it has done
    \* ---- one call of a pure function of the repository ----
    call,             \* the function called, its arguments and whether it has returned
    ret,              \* what it returned
    \* ---- the module state of pages/api/update-data-stream.ts ----
    streamTexts,      \* let streamTexts: stream id -> live text record
    finalizedEntries, \* let finalizedEntries: FinalizedDataEntry[]
    reply             \* the last request to /api/update-data-stream and its status

streamVars == <<variant, enableSteps, fullText, upstream, buffer, streamContent,
                finalAnswerSent, counter, out, queue, streamState, delivered,
                cancelled, closeCalls, released, spc, exit, startResult, carried>>

handlerVars == <<env, initializedConversations, req>>

libVars == <<call, ret>>

storeVars == <<streamTexts, finalizedEntries, reply>>

otherVars == <<libVars, storeVars>>

vars == <<streamVars, handlerVars, otherVars>>

(***************************************************************************)
(* Bounds of the model.                                                    *)
(***************************************************************************)
MaxLines == 2
MaxRequests == 2
MaxEntries == 2
MaxMessages == 37

(***************************************************************************)
(* Text atoms and the upstream lines built from them.                      *)
(***************************************************************************)
NL == "\n"
DataPrefix == "data: "
StepPrefix == "intermediate_data: "
DoneToken == "[DONE]"
ValueHead == "{\"val"
ValueTail == "ue\":\"hi\"}"
DeltaDoc == "{\"choices\":[{\"delta\":{\"content\":\"yo\"}}]}"
StepDoc == "{\"id\":\"s1\",\"index\":7}"
OutputDoc == "{\"output\":\" 42 \"}"
MixedDoc == "{\"value\":5,\"output\":\"hi\"}"
TagText == "<intermediatestep>{\"id\":\"t1\",\"index\":9}</intermediatestep>"
\* a JSON document written on two lines, whose value is a string with both tags
ValueOpen == "{\"value\":"
TaggedValue == "\"<intermediatestep>{}</intermediatestep>\"}"

LineValue == <<DataPrefix, ValueHead, ValueTail>>
LineDelta == <<DataPrefix, DeltaDoc>>
LineMixed == <<DataPrefix, MixedDoc>>
LineDone == <<DataPrefix, DoneToken>>
LineStep == <<StepPrefix, StepDoc>>
LineTag == <<TagText>>
\* lines whose payload is a document cut short: JSON.parse throws on it
LineBadData == <<DataPrefix, ValueHead>>
LineBadStep == <<StepPrefix, ValueHead>>
LineBare == <<OutputDoc>>

UpstreamLines == {LineValue, LineDelta, LineMixed, LineDone, LineStep, LineTag, LineBare,
                  LineBadData, LineBadStep}
\* how a body ends after its lines: nothing more, an unterminated data frame, an
\* unterminated bare document (of one or two atoms), a bare document on two lines,
\* or a [DONE] line with one more frame behind it
UpstreamTails == {<<>>, LineValue, LineBare, <<ValueHead, ValueTail>>,
                  <<ValueOpen, NL, TaggedValue, NL>>,
                  LineDone \o <<NL>> \o LineDelta \o <<NL>>}

RECURSIVE JoinLines(_)
JoinLines(ls) ==
    IF ls = <<>> THEN <<>> ELSE Head(ls) \o <<NL>> \o JoinLines(Tail(ls))

\* a body is up to MaxLines complete lines, or fewer of them and one of the tails
LineSeqs(n) == UNION {[1..k -> UpstreamLines] : k \in 0..n}
UpstreamTexts ==
    {JoinLines(ls) : ls \in LineSeqs(MaxLines)}
        \cup {JoinLines(ls) \o tl : ls \in LineSeqs(MaxLines - 1), tl \in UpstreamTails}

(***************************************************************************)
(* JavaScript values: a field of a parsed document is undefined, a string  *)
(* or a number (kept by its digits); a whole document may also be null or  *)
(* an object (kept by its JSON text); x || y yields x when x is truthy.    *)
(***************************************************************************)
Undef == [t |-> "undefined", v |-> ""]
Str(s) == [t |-> "string", v |-> s]
Num(n) == [t |-> "number", v |-> n]
Truthy(x) ==
    \/ x.t = "string" /\ x.v # ""
    \/ x.t = "number" /\ x.v # "0"
    \/ x.t = "object"
Or(x, y) == IF Truthy(x) THEN x ELSE y
IsString(x) == x.t = "string"

NoFields == [value |-> Undef, output |-> Undef, answer |-> Undef,
             message |-> Undef, delta |-> Undef, id |-> Undef, index |-> Undef]

\* string.trim() over atoms: leading and trailing newlines are dropped
RECURSIVE TrimLeft(_)
TrimLeft(s) ==
    IF s # <<>> /\ Head(s) = NL THEN TrimLeft(Tail(s)) ELSE s
RECURSIVE TrimRight(_)
TrimRight(s) ==
    IF s # <<>> /\ s[Len(s)] = NL THEN TrimRight(SubSeq(s, 1, Len(s) - 1)) ELSE s
Trim(s) == TrimRight(TrimLeft(s))

\* JSON.parse: ok = FALSE stands for the SyntaxError it throws
JSONparse(s) ==
    LET d == Trim(s) IN
    CASE d = <<ValueHead, ValueTail>> ->
           [ok |-> TRUE, obj |-> [NoFields EXCEPT !.value = Str("hi")]]
      [] d = <<DeltaDoc>> ->
           [ok |-> TRUE, obj |-> [NoFields EXCEPT !.delta = Str("yo")]]
      [] d = <<StepDoc>> ->
           [ok |-> TRUE, obj |-> [NoFields EXCEPT !.id = Str("s1"), !.index = Num("7")]]
      [] d = <<OutputDoc>> ->
           [ok |-> TRUE, obj |-> [NoFields EXCEPT !.output = Str(" 42 ")]]
      [] d = <<ValueOpen, NL, TaggedValue>> ->
           [ok |-> TRUE,
            obj |-> [NoFields EXCEPT !.value = Str("<intermediatestep>{}</intermediatestep>")]]
      [] d = <<MixedDoc>> ->
           [ok |-> TRUE, obj |-> [NoFields EXCEPT !.value = Num("5"), !.output = Str("hi")]]
      [] OTHER -> [ok |-> FALSE, obj |-> NoFields]

\* buffer.split('\n'): n newlines give n + 1 segments
RECURSIVE Split(_)
Split(s) ==
    IF \A i \in 1..Len(s) : s[i] # NL THEN <<s>>
    ELSE LET i == CHOOSE j \in 1..Len(s) :
                     s[j] = NL /\ \A k \in 1..(j - 1) : s[k] # NL
         IN <<SubSeq(s, 1, i - 1)>> \o Split(SubSeq(s, i + 1, Len(s)))

startsWith(line, prefix) == Len(line) >= 1 /\ line[1] = prefix
includesTags(line) == \E i \in 1..Len(line) : line[i] \in {TagText, TaggedValue}

(***************************************************************************)
(* The output controller.  A chunk is what one enqueue call is given.      *)
(***************************************************************************)
TextChunk(s) == [k |-> "text", v |-> <<s>>, index |-> -1]
\* a line passed on verbatim: a tag line keeps the index that upstream wrote into it
LineChunk(line) ==
    [k |-> "line", v |-> line,
     index |-> IF \E i \in 1..Len(line) : line[i] = TagText THEN 9 ELSE -1]
\* a marker that takes its index from the upstream payload
StepChunkWithUpstreamIndex(id, n) == [k |-> "step", v |-> <<id>>, index |-> 7]

StepChunk(id, n) == [k |-> "step", v |-> <<id>>, index |-> n]

\* a chunk that carries an <intermediatestep> marker
IsMarker(c) == c.k = "step" \/ (c.k = "line" /\ includesTags(c.v))

\* controller.enqueue and controller.close throw a TypeError once close was called
\* or the stream is no longer readable
CanCloseOrEnqueue(t) == t.closeCalls = 0 /\ t.streamState = "readable"
Enqueue(t, c) == [t EXCEPT !.out = Append(@, c), !.queue = Append(@, c)]
\* one invocation of controller.close(): accepted, it closes the stream at once when
\* the queue is empty and otherwise when the queue has been drained
Close(t) ==
    IF CanCloseOrEnqueue(t)
    THEN [t EXCEPT !.closeCalls = @ + 1,
                   !.streamState = IF t.queue = <<>> THEN "closed" ELSE @]
    ELSE [t EXCEPT !.closeCalls = @ + 1]
\* an enqueue inside try { } catch {}: the TypeError is swallowed
TryEnqueue(t, c) == IF CanCloseOrEnqueue(t) THEN Enqueue(t, c) ELSE t
\* an enqueue outside any try block: the TypeError leaves the loop
ThrowingEnqueue(t, c) ==
    IF CanCloseOrEnqueue(t) THEN Enqueue(t, c) ELSE [t EXCEPT !.exit = "throw"]

T0 == [buffer |-> <<>>, streamContent |-> <<>>, finalAnswerSent |-> FALSE,
       counter |-> 0, out |-> <<>>, queue |-> <<>>, streamState |-> "readable",
       closeCalls |-> 0, released |-> FALSE,
       exit |-> "none", startResult |-> "pending"]

(***************************************************************************)
(* processGenerateStream: one line of the for loop.                        *)
(***************************************************************************)
GenerateLine(enable, t, line) ==
    IF startsWith(line, DataPrefix) THEN
        LET data == Tail(line)
            p == JSONparse(data)
            content == Or(p.obj.value, Or(p.obj.output, Or(p.obj.answer,
                          Or(p.obj.message, p.obj.delta))))
        IN IF Trim(data) = <<DoneToken>>
           THEN [Close(t) EXCEPT !.exit = "sentinel"]
           ELSE IF p.ok /\ Truthy(content) /\ IsString(content)
                THEN TryEnqueue(t, TextChunk(content.v))
                ELSE t
    ELSE IF includesTags(line) /\ enable THEN
        ThrowingEnqueue(t, LineChunk(line))
    ELSE IF startsWith(line, StepPrefix) THEN
        LET p == JSONparse(Tail(line))
        IN IF p.ok
           THEN TryEnqueue([t EXCEPT !.counter = @ + 1],
                           StepChunk(Or(p.obj.id, Str("")).v, t.counter))
           ELSE t
    ELSE t

(***************************************************************************)
(* processChatStream: one line of the for loop.                            *)
(***************************************************************************)
ChatLine(enable, t, line) ==
    IF startsWith(line, DataPrefix) THEN
        LET data == Tail(line)
            p == JSONparse(data)
            content == Or(p.obj.message, p.obj.delta)
        IN IF Trim(data) = <<DoneToken>>
           THEN [Close(t) EXCEPT !.exit = "sentinel"]
           ELSE IF p.ok /\ Truthy(content)
                THEN TryEnqueue(t, TextChunk(content.v))
                ELSE t
    ELSE IF startsWith(line, StepPrefix) /\ enable THEN
        LET p == JSONparse(Tail(line))
        IN IF p.ok
           THEN TryEnqueue([t EXCEPT !.counter = @ + 1],
                           StepChunk(Or(p.obj.id, Str("")).v, t.counter))
           ELSE t
    ELSE t

DispatchLine(var, enable, t, line) ==
    IF var = "generate" THEN GenerateLine(enable, t, line)
    ELSE ChatLine(enable, t, line)

\* a data: or intermediate_data: line whose payload JSON.parse rejects
MalformedLine(line) ==
    /\ \/ startsWith(line, DataPrefix) /\ Trim(Tail(line)) # <<DoneToken>>
       \/ startsWith(line, StepPrefix)
    /\ ~JSONparse(Tail(line)).ok

RECURSIVE ProcessLines(_, _, _, _)
\* a loop that a payload failing to parse throws out of
ProcessLinesUntilMalformed(var, enable, t, lines) ==
    IF lines = <<>> THEN t
    ELSE IF MalformedLine(Head(lines)) THEN [t EXCEPT !.exit = "throw"]
    ELSE LET t1 == DispatchLine(var, enable, t, Head(lines))
         IN IF t1.exit # "none" THEN t1
            ELSE ProcessLines(var, enable, t1, Tail(lines))

\* for (const line of lines): a [DONE] line returns from start(), a throw leaves it
ProcessLines(var, enable, t, lines) ==
    IF lines = <<>> THEN t
    ELSE LET t1 == DispatchLine(var, enable, t, Head(lines))
         IN IF t1.exit # "none" THEN t1
            ELSE ProcessLines(var, enable, t1, Tail(lines))

\* a loop that splits each chunk alone and forgets the unfinished line before it
ProcessChunkWithoutCarryover(var, enable, t, chunk) ==
    LET lines == Split(chunk)
        t1 == [t EXCEPT !.buffer = lines[Len(lines)],
                        !.streamContent =
                            IF var = "generate" THEN @ \o chunk ELSE @]
    IN ProcessLines(var, enable, t1, SubSeq(lines, 1, Len(lines) - 1))

\* the loop body for one chunk that reader.read() returned
ProcessChunk(var, enable, t, chunk) ==
    LET lines == Split(t.buffer \o chunk)
        t1 == [t EXCEPT !.buffer = lines[Len(lines)],
                        !.streamContent =
                            IF var = "generate" THEN @ \o chunk ELSE @]
    IN ProcessLines(var, enable, t1, SubSeq(lines, 1, Len(lines) - 1))

\* value.trim() of a string field
TrimText(text) == IF text = " 42 " THEN "42" ELSE text

\* the whole-body fallback of processGenerateStream's finally block
Fallback(t) ==
    LET p == JSONparse(t.streamContent)
        value == Or(p.obj.value, Or(p.obj.output, Or(p.obj.answer, p.obj.message)))
    IN IF p.ok /\ Truthy(value) /\ IsString(value) /\ CanCloseOrEnqueue(t)
       THEN [Enqueue(t, TextChunk(TrimText(value.v))) EXCEPT !.finalAnswerSent = TRUE]
       ELSE t   \* nothing to send, or the parse or the enqueue threw: caught

\* controller.close(); reader?.releaseLock(): a close() that throws skips the release
CloseAndRelease(t) ==
    IF CanCloseOrEnqueue(t)
    THEN [Close(t) EXCEPT !.released = TRUE,
                          !.startResult =
                              IF t.exit \in {"error", "throw"} THEN "rejected"
                              ELSE "fulfilled"]
    ELSE [Close(t) EXCEPT !.startResult = "rejected"]

\* a finally block that closes without trying the fallback
FinallyWithoutFallback(var, t) == CloseAndRelease(t)

Finally(var, t) ==
    IF var = "generate" /\ ~t.finalAnswerSent
    THEN CloseAndRelease(Fallback(t))
    ELSE CloseAndRelease(t)

(***************************************************************************)
(* URLs.  A URL string is modelled by what new URL() makes of it: its      *)
(* protocol, its credentials, its host (with port) and its path, a         *)
(* sequence of segments in which "." and ".." are resolved; and by the     *)
(* scheme as the string spells it (written), which startsWith() looks at.  *)
(***************************************************************************)
BackendAddress == "127.0.0.1:8000"

RECURSIVE RemoveDotSegments(_, _)
RemoveDotSegments(segs, acc) ==
    IF segs = <<>> THEN acc
    ELSE IF Head(segs) = ".." THEN
        RemoveDotSegments(Tail(segs),
                          IF acc = <<>> THEN acc ELSE SubSeq(acc, 1, Len(acc) - 1))
    ELSE IF Head(segs) = "." THEN RemoveDotSegments(Tail(segs), acc)
    ELSE RemoveDotSegments(Tail(segs), Append(acc, Head(segs)))

\* HTTP_ENDPOINTS and WEBSOCKET_PATH
CHAT_STREAM == <<"chat", "stream">>
CHAT == <<"chat">>
GENERATE_STREAM == <<"generate", "stream">>
GENERATE == <<"generate">>
CHAT_CA_RAG == <<"call">>
HTTP_ENDPOINTS == {CHAT_STREAM, CHAT, GENERATE_STREAM, GENERATE, CHAT_CA_RAG}
WEBSOCKET_PATH == <<"websocket">>

\* The httpEndpoint string of a request: the text it puts behind the server's
\* host (nothing, "@evil.com:8000" or a bad port ":x") and the path it names.
Endpoint(pre, segs) == [pre |-> pre, segs |-> segs]
EpTraversal == Endpoint("", <<"chat", "..", "admin">>)
EpOtherHost == Endpoint("@evil.com:8000", <<"chat">>)
EpBadPort == Endpoint(":x", <<"chat">>)
BadEndpoints == {EpTraversal, EpOtherHost, EpBadPort}
GoodEndpoints == {Endpoint("", e) : e \in HTTP_ENDPOINTS}

\* new URL(`${serverURL}${httpEndpoint}`): ok = FALSE stands for the TypeError
RequestURL(server, ep) ==
    [ok |-> ep.pre # ":x",
     written |-> server.protocol,
     protocol |-> server.protocol,
     username |-> IF ep.pre = "@evil.com:8000" THEN server.host ELSE "",
     host |-> IF ep.pre = "@evil.com:8000" THEN "evil.com:8000" ELSE server.host,
     path |-> RemoveDotSegments(ep.segs, <<>>)]

\* new URL('/init', serverURL)
InitURL(server) ==
    [ok |-> TRUE, written |-> server.protocol, protocol |-> server.protocol,
     username |-> "",
     host |-> server.host, path |-> <<"init">>]

(***************************************************************************)
(* process.env and the server URL the handler derives from it.             *)
(***************************************************************************)
Unset == [protocol |-> "", host |-> ""]
Environment(mode, url, address) ==
    [NODE_ENV |-> mode, NAT_BACKEND_URL |-> url,
     NEXT_PUBLIC_NAT_BACKEND_ADDRESS |-> address]

Environments ==
    {Environment("development", Unset, BackendAddress),
     Environment("production", Unset, BackendAddress),
     Environment("development", Unset, ""),
     Environment("production", [protocol |-> "http", host |-> BackendAddress],
                 BackendAddress),
     Environment("development", [protocol |-> "http", host |-> "10.0.0.5:9000"],
                 BackendAddress),
     Environment("development", [protocol |-> "http", host |-> BackendAddress], "")}

\* buildHTTPBaseURL
buildHTTPBaseURL(e, backendAddress) ==
    [protocol |-> IF e.NODE_ENV = "production" THEN "https" ELSE "http",
     host |-> backendAddress]

\* const serverURL = process.env.NAT_BACKEND_URL || (... ? buildHTTPBaseURL(...) : undefined)
ServerURL(e) ==
    IF e.NAT_BACKEND_URL # Unset THEN e.NAT_BACKEND_URL
    ELSE IF e.NEXT_PUBLIC_NAT_BACKEND_ADDRESS # ""
         THEN buildHTTPBaseURL(e, e.NEXT_PUBLIC_NAT_BACKEND_ADDRESS)
         ELSE Unset

(***************************************************************************)
(* The URL validator.                                                      *)
(***************************************************************************)
isValidProtocol(e, url) ==
    IF e.NODE_ENV = "production" THEN url.written \in {"https", "wss"}
    ELSE url.written \in {"http", "https", "ws", "wss"}

isValidPath(url) == url.path \in HTTP_ENDPOINTS \/ url.path = WEBSOCKET_PATH

isValidBaseAddress(e, url) ==
    /\ e.NEXT_PUBLIC_NAT_BACKEND_ADDRESS # ""
    /\ url.ok
    /\ url.host = e.NEXT_PUBLIC_NAT_BACKEND_ADDRESS

validateRequestURL(e, url) ==
    IF ~isValidBaseAddress(e, url)
    THEN [isValid |-> FALSE, error |-> "Base address does not match configured backend"]
    ELSE IF ~isValidProtocol(e, url)
    THEN [isValid |-> FALSE, error |-> "Invalid protocol"]
    ELSE IF ~isValidPath(url)
    THEN [isValid |-> FALSE, error |-> "Path is not in the allowed list"]
    ELSE [isValid |-> TRUE, error |-> ""]

(***************************************************************************)
(* Messages, optionalGenerationParameters and payloads.                    *)
(***************************************************************************)
UserMsg == [role |-> "user", content |-> "q"]
AssistantMsg == [role |-> "assistant", content |-> "a"]
MessageLists == {<<>>, <<UserMsg>>, <<UserMsg, AssistantMsg>>}

OptEmpty == ""
OptBlank == "  "
OptMalformed == "{bad"
OptArray == "[1]"
OptTemperature == "{\"temperature\":0.2}"
OptMessages == "{\"messages\":[]}"
OptTemperatureStream == "{\"temperature\":0.2,\"stream\":false}"
OptInputMessage == "{\"input_message\":\"x\"}"
OptionalParameters == {OptEmpty, OptBlank, OptMalformed, OptArray, OptTemperature,
                       OptMessages, OptTemperatureStream, OptInputMessage}

\* optionalGenerationParameters.trim()
TrimParameters(o) == IF o = OptBlank THEN "" ELSE o

\* JSON.parse(optionalGenerationParameters) and Object.keys of the result
ParseParameters(o) ==
    CASE o = OptTemperature -> [ok |-> TRUE, object |-> TRUE, keys |-> <<"temperature">>]
      [] o = OptMessages -> [ok |-> TRUE, object |-> TRUE, keys |-> <<"messages">>]
      [] o = OptTemperatureStream ->
           [ok |-> TRUE, object |-> TRUE, keys |-> <<"temperature", "stream">>]
      [] o = OptInputMessage -> [ok |-> TRUE, object |-> TRUE, keys |-> <<"input_message">>]
      [] o = OptArray -> [ok |-> TRUE, object |-> FALSE, keys |-> <<>>]
      [] OTHER -> [ok |-> FALSE, object |-> FALSE, keys |-> <<>>]

\* a payload is the set of its top-level fields, each with where its value is from
Field(k, from) == [key |-> k, from |-> from]
NoPayload == {}
buildGeneratePayload(messages) ==
    IF messages = <<>> \/ messages[Len(messages)].content = ""
    THEN [ok |-> FALSE, payload |-> NoPayload]
    ELSE [ok |-> TRUE, payload |-> {Field("input_message", "server")}]
buildOpenAIChatPayload(messages) ==
    [ok |-> TRUE, payload |-> {Field("messages", "server"), Field("stream", "server")}]
CaRagMessagesOk(messages) ==
    messages # <<>> /\ messages[Len(messages)].role = "user"
CaRagPayload == {Field("state", "server")}

\* a reserved set that forgets the stream flag
reservedWithoutStream == {"messages", "input_message"}

reserved == {"messages", "stream", "input_message"}
RECURSIVE FirstReserved(_, _)
FirstReserved(keys, res) ==
    IF keys = <<>> THEN ""
    ELSE IF Head(keys) \in res THEN Head(keys)
    ELSE FirstReserved(Tail(keys), res)

\* { ...payload, ...parsedOptionalGenerationParameters }
Spread(payload, keys) ==
    {f \in payload : \A i \in 1..Len(keys) : keys[i] # f.key}
        \cup {Field(keys[i], "client") : i \in 1..Len(keys)}

\* httpEndpoint.includes('generate'), httpEndpoint === HTTP_ENDPOINTS.CHAT_CA_RAG
isGenerateEndpoint(ep) == \E i \in 1..Len(ep.segs) : ep.segs[i] = "generate"
isCaRagEndpoint(ep) == ep.pre = "" /\ ep.segs = CHAT_CA_RAG

\* `${ragUuid}-${conversationId || 'default'}`
RagUuid == "123456"
combinedConversationId(conversationId) ==
    <<RagUuid, IF conversationId = "" THEN "default" ELSE conversationId>>

(***************************************************************************)
(* The parts of the state a specification leaves alone.                    *)
(***************************************************************************)
NoCallMade == [fn |-> "none", done |-> FALSE]
NoLib ==
    /\ call = NoCallMade
    /\ ret = <<>>

\* the stream ids of the model and the live text record of a stream; present =
\* FALSE stands for a key that streamTexts does not have
StoreStreamIds == {"default", "mic1"}
NoTextData == [present |-> FALSE, text |-> "", timestamp |-> 0]
NoResponse == [status |-> 0, method |-> "none", finalized |-> FALSE, stream |-> "",
               uuid |-> "", pending |-> FALSE]
NoStore ==
    /\ streamTexts = [id \in StoreStreamIds |-> NoTextData]
    /\ finalizedEntries = <<>>
    /\ reply = NoResponse

(***************************************************************************)
(* The handler.  A request is one slot of req; what the handler does       *)
(* between two awaits is one step.                                         *)
(***************************************************************************)
Slots == 1..MaxRequests

Input(ep, msgs, opt, conv) ==
    [httpEndpoint |-> ep, messages |-> msgs,
     optionalGenerationParameters |-> opt, conversationId |-> conv]

ConversationIds == {"", "c1"}

\* what a CA-RAG request can be
CaRagInputs ==
    {Input(Endpoint("", CHAT_CA_RAG), m, OptEmpty, c) :
        m \in MessageLists, c \in ConversationIds}

\* what any request can be
AnyInputs ==
    CaRagInputs
    \cup {Input(Endpoint("", CHAT_CA_RAG), <<UserMsg>>, OptMessages, "c1")}
    \cup {Input(ep, <<UserMsg>>, OptEmpty, "") : ep \in BadEndpoints}
    \cup {Input(Endpoint("", e), m, o, "") :
            e \in {GENERATE, GENERATE_STREAM}, m \in MessageLists,
            o \in {OptEmpty, OptInputMessage}}
    \cup {Input(Endpoint("", e), m, o, "") :
            e \in {CHAT, CHAT_STREAM}, m \in MessageLists, o \in OptionalParameters}

\* Slot 1 takes any request; the other slots take CA-RAG requests, the only ones
\* whose handling reads or writes state shared between requests.
InputsOf(r) == IF r = 1 THEN AnyInputs ELSE CaRagInputs

NoInput == Input(Endpoint("", <<>>), <<>>, OptEmpty, "")
NoCall == [url |-> InitURL(Unset), payload |-> NoPayload]
Idle == [pc |-> "idle", in |-> NoInput, status |-> 0, body |-> <<>>,
         validated |-> {}, initCall |-> "none", initURL |-> InitURL(Unset),
         mainCall |-> "none", main |-> NoCall,
         initCalls |-> 0, mainCalls |-> 0,
         memoSeen |-> {}, after |-> {}]

Respond(q, status, body) == [q EXCEPT !.pc = "done", !.status = status, !.body = body]

\* fetch(requestURL, { method: 'POST', ..., body: JSON.stringify(payload) })
FetchMain(e, q, payload) ==
    [q EXCEPT !.pc = "awaitMain", !.mainCall = "pending", !.mainCalls = @ + 1,
              !.main = [url |-> RequestURL(ServerURL(e), q.in.httpEndpoint),
                        payload |-> payload]]

\* the merge of optionalGenerationParameters, then the main request
MergeAndFetch(e, q, payload) ==
    LET ep == q.in.httpEndpoint
        o == q.in.optionalGenerationParameters
        parsed == ParseParameters(o)
        k == FirstReserved(parsed.keys, reserved)
    IN IF ~isGenerateEndpoint(ep) /\ o # "" /\ TrimParameters(o) # ""
          /\ ~isCaRagEndpoint(ep)
       THEN IF ~parsed.ok
            THEN Respond(q, 400, <<"Invalid additional JSON body format">>)
            ELSE IF ~parsed.object THEN FetchMain(e, q, payload)
            ELSE IF k # ""
            THEN Respond(q, 400,
                   <<"optionalGenerationParameters cannot override reserved field", k>>)
            ELSE FetchMain(e, q, Spread(payload, parsed.keys))
       ELSE FetchMain(e, q, payload)

\* a builder that calls /init without looking at the memo set
CaRagStartWithoutMemo(e, memo, q) ==
    IF ~CaRagMessagesOk(q.in.messages)
    THEN Respond(q, 400, <<"User message not found: messages array is empty or invalid.">>)
    ELSE [q EXCEPT !.pc = "awaitInit", !.initCall = "pending", !.initCalls = @ + 1,
                   !.initURL = InitURL(ServerURL(e)), !.memoSeen = memo]

\* buildContextAwareRAGPayload up to its await
CaRagStart(e, memo, q) ==
    IF ~CaRagMessagesOk(q.in.messages)
    THEN Respond(q, 400, <<"User message not found: messages array is empty or invalid.">>)
    ELSE IF combinedConversationId(q.in.conversationId) \notin memo
    THEN [q EXCEPT !.pc = "awaitInit", !.initCall = "pending", !.initCalls = @ + 1,
                   !.initURL = InitURL(ServerURL(e)), !.memoSeen = memo]
    ELSE MergeAndFetch(e, [q EXCEPT !.memoSeen = memo], CaRagPayload)

\* the payload builders behind a validated URL
BuildPayload(e, memo, q) ==
    LET ep == q.in.httpEndpoint
        g == buildGeneratePayload(q.in.messages)
    IN IF isCaRagEndpoint(ep) THEN CaRagStart(e, memo, q)
       ELSE IF isGenerateEndpoint(ep)
       THEN IF g.ok THEN MergeAndFetch(e, q, g.payload)
            ELSE Respond(q, 400, <<"User message not found.">>)
       ELSE MergeAndFetch(e, q, buildOpenAIChatPayload(q.in.messages).payload)

\* a handler that builds the payload whatever the validator said
HandlerWithoutValidation(e, memo, q) ==
    BuildPayload(e, memo, q)

\* the handler from its start to its first await of a fetch, or to its response
Handler(e, memo, q) ==
    LET url == RequestURL(ServerURL(e), q.in.httpEndpoint)
        validationResult == validateRequestURL(e, url)
    IN IF ServerURL(e) = Unset
       THEN Respond(q, 500, <<"Backend URL not configured on server">>)
       ELSE IF ~url.ok THEN Respond(q, 400, <<"Invalid URL construction">>)
       ELSE IF ~validationResult.isValid
       THEN Respond(q, 403, <<"URL validation failed", validationResult.error>>)
       ELSE BuildPayload(e, memo, [q EXCEPT !.validated = {url}])

InitHandler ==
    /\ env \in Environments
    /\ initializedConversations = {}
    /\ req = [r \in Slots |-> Idle]

\* a builder that marks the conversation when it issues /init, before the answer
MemoAfterCheckMarking(memo, q) ==
    IF q.pc = "awaitInit"
    THEN memo \cup {combinedConversationId(q.in.conversationId)}
    ELSE memo

\* initializedConversations.has(...) and the call of fetch leave the memo set alone
MemoAfterCheck(memo, q) == memo

\* a request arrives
Start(r) ==
    /\ req[r].pc = "idle"
    /\ \E in \in InputsOf(r) :
         req' = [req EXCEPT ![r] =
                   Handler(env, initializedConversations,
                           [Idle EXCEPT !.in = in,
                                        !.after = {x \in Slots : req[x].pc = "done"}])]
    /\ initializedConversations' = MemoAfterCheck(initializedConversations, req'[r])
    /\ UNCHANGED <<env, streamVars, otherVars>>

\* a builder that marks the conversation whatever /init answered
MemoAfterInitUnchecked(memo, key, result) == memo \cup {key}

\* if (!initResponse.ok) throw ...; initializedConversations.add(combinedConversationId)
MemoAfterInit(memo, key, result) ==
    IF result = "ok" THEN memo \cup {key} ELSE memo

\* the awaited fetch of /init settles
InitSettles(r) ==
    /\ req[r].pc = "awaitInit"
    /\ \E result \in {"ok", "not ok", "network error"} :
         LET q == [req[r] EXCEPT !.initCall = result]
             key == combinedConversationId(q.in.conversationId)
         IN /\ initializedConversations' =
                   MemoAfterInit(initializedConversations, key, result)
            /\ req' = [req EXCEPT ![r] =
                         IF result = "ok" THEN MergeAndFetch(env, q, CaRagPayload)
                         ELSE Respond(q, 400, <<"CA RAG initialization failed">>)]
    /\ UNCHANGED <<env, streamVars, otherVars>>

\* a handler that fetches the request URL again when the fetch failed
MainSettlesRetrying(r) ==
    /\ req[r].pc = "awaitMain"
    /\ \E result \in {"ok", "not ok", "network error"} :
         LET q == [req[r] EXCEPT !.mainCall = result]
         IN req' = [req EXCEPT ![r] =
                      IF result = "ok" THEN Respond(q, 200, <<>>)
                      ELSE IF q.mainCalls < 2 THEN FetchMain(env, q, q.main.payload)
                      ELSE Respond(q, 500, <<"Request failed">>)]
    /\ UNCHANGED <<env, initializedConversations, streamVars, otherVars>>

\* the awaited fetch of the request URL settles
MainSettles(r) ==
    /\ req[r].pc = "awaitMain"
    /\ \E result \in {"ok", "not ok", "network error"} :
         LET q == [req[r] EXCEPT !.mainCall = result]
         IN req' = [req EXCEPT ![r] =
                      CASE result = "ok" -> Respond(q, 200, <<>>)
                        [] result = "not ok" -> Respond(q, 500, <<"Error">>)
                        [] OTHER -> Respond(q, 500, <<"Request failed">>)]
    /\ UNCHANGED <<env, initializedConversations, streamVars, otherVars>>

NextHandler == \E r \in Slots : Start(r) \/ InitSettles(r) \/ MainSettles(r)

(***************************************************************************)
(* One run of a stream transformer as a state machine.  Everything between *)
(* two awaits of reader.read() is one step.                                *)
(***************************************************************************)
Cur == [buffer |-> buffer, streamContent |-> streamContent,
        finalAnswerSent |-> finalAnswerSent, counter |-> counter, out |-> out,
        queue |-> queue, streamState |-> streamState,
        closeCalls |-> closeCalls, released |-> released, exit |-> exit,
        startResult |-> startResult]

Install(t) ==
    /\ buffer' = t.buffer
    /\ streamContent' = t.streamContent
    /\ finalAnswerSent' = t.finalAnswerSent
    /\ counter' = t.counter
    /\ out' = t.out
    /\ queue' = t.queue
    /\ streamState' = t.streamState
    /\ closeCalls' = t.closeCalls
    /\ released' = t.released
    /\ exit' = t.exit
    /\ startResult' = t.startResult

InitStream ==
    /\ variant \in {"generate", "chat"}
    /\ enableSteps \in BOOLEAN
    /\ fullText \in UpstreamTexts
    /\ upstream = fullText
    /\ buffer = T0.buffer
    /\ streamContent = T0.streamContent
    /\ finalAnswerSent = T0.finalAnswerSent
    /\ counter = T0.counter
    /\ out = T0.out
    /\ queue = T0.queue
    /\ streamState = T0.streamState
    /\ delivered = <<>>
    /\ cancelled = FALSE
    /\ closeCalls = T0.closeCalls
    /\ released = T0.released
    /\ exit = T0.exit
    /\ startResult = T0.startResult
    /\ spc = "reading"
    /\ carried = FALSE
    /\ env = Environment("development", Unset, BackendAddress)
    /\ initializedConversations = {}
    /\ req = [r \in Slots |-> Idle]
    /\ NoLib
    /\ NoStore

\* reader.read() returns { done: false, value }: the next k atoms of the body
ReadChunk ==
    /\ spc = "reading"
    /\ upstream # <<>>
    /\ \E k \in 1..Len(upstream) :
         LET t1 == ProcessChunk(variant, enableSteps, Cur, SubSeq(upstream, 1, k))
         IN /\ upstream' = SubSeq(upstream, k + 1, Len(upstream))
            /\ Install(IF t1.exit = "none" THEN t1 ELSE Finally(variant, t1))
            /\ spc' = IF t1.exit = "none" THEN "reading" ELSE "done"
            /\ carried' = (carried \/ (t1.exit = "none" /\ t1.buffer # <<>>))
    /\ UNCHANGED <<variant, enableSteps, fullText, delivered, cancelled, handlerVars, otherVars>>

\* a loop that dispatches what is left in the buffer when the upstream ends
ReadEndDispatchingBuffer ==
    /\ spc = "reading"
    /\ upstream = <<>>
    /\ LET t1 == ProcessLines(variant, enableSteps, Cur, <<buffer>>)
       IN Install(Finally(variant, IF t1.exit = "none" THEN [t1 EXCEPT !.exit = "end"]
                                   ELSE t1))
    /\ spc' = "done"
    /\ UNCHANGED <<variant, enableSteps, fullText, upstream, carried, delivered,
                   cancelled, handlerVars, otherVars>>

\* reader.read() returns { done: true }: break, then the finally block
ReadEnd ==
    /\ spc = "reading"
    /\ upstream = <<>>
    /\ Install(Finally(variant, [Cur EXCEPT !.exit = "end"]))
    /\ spc' = "done"
    /\ UNCHANGED <<variant, enableSteps, fullText, upstream, carried, delivered,
                   cancelled, handlerVars, otherVars>>

\* reader.read() rejects (the upstream connection fails): the finally block runs
ReadFails ==
    /\ spc = "reading"
    /\ Install(Finally(variant, [Cur EXCEPT !.exit = "error"]))
    /\ spc' = "done"
    /\ UNCHANGED <<variant, enableSteps, fullText, upstream, carried, delivered,
                   cancelled, handlerVars, otherVars>>

\* the reader of the output (the response body) takes the next queued chunk; the
\* stream closes when a requested close finds the queue drained
Pull ==
    /\ streamState = "readable"
    /\ queue # <<>>
    /\ delivered' = Append(delivered, Head(queue))
    /\ queue' = Tail(queue)
    /\ streamState' = IF Tail(queue) = <<>> /\ closeCalls > 0 THEN "closed" ELSE streamState
    /\ UNCHANGED <<variant, enableSteps, fullText, upstream, buffer, streamContent,
                   finalAnswerSent, counter, out, closeCalls, released, spc, exit,
                   startResult, carried, cancelled, handlerVars, otherVars>>

\* the promise of start() settles: a rejection errors a stream that is still
\* readable and empties its queue
StartSettles ==
    /\ spc = "done"
    /\ spc' = "settled"
    /\ IF startResult = "rejected" /\ streamState = "readable"
       THEN queue' = <<>> /\ streamState' = "errored"
       ELSE UNCHANGED <<queue, streamState>>
    /\ UNCHANGED <<variant, enableSteps, fullText, upstream, buffer, streamContent,
                   finalAnswerSent, counter, out, delivered, closeCalls, released, exit,
                   startResult, carried, cancelled, handlerVars, otherVars>>

\* the reader of the output cancels it (the browser went away): the stream closes
\* and drops its queue; the underlying source has no cancel() to be told
Cancel ==
    /\ streamState = "readable"
    /\ cancelled' = TRUE
    /\ queue' = <<>>
    /\ streamState' = "closed"
    /\ UNCHANGED <<variant, enableSteps, fullText, upstream, buffer, streamContent,
                   finalAnswerSent, counter, out, delivered, closeCalls, released, spc,
                   exit, startResult, carried, handlerVars, otherVars>>

NextStream == ReadChunk \/ ReadEnd \/ ReadFails \/ Pull \/ StartSettles \/ Cancel

SpecStream == InitStream /\ [][NextStream]_vars

\* the handler alone: no stream is running
NoStream ==
    /\ variant = "chat"
    /\ enableSteps = TRUE
    /\ fullText = <<>>
    /\ upstream = <<>>
    /\ buffer = T0.buffer
    /\ streamContent = T0.streamContent
    /\ finalAnswerSent = T0.finalAnswerSent
    /\ counter = T0.counter
    /\ out = T0.out
    /\ queue = T0.queue
    /\ streamState = T0.streamState
    /\ delivered = <<>>
    /\ cancelled = FALSE
    /\ closeCalls = T0.closeCalls
    /\ released = T0.released
    /\ exit = T0.exit
    /\ startResult = T0.startResult
    /\ spc = "settled"
    /\ carried = FALSE

Init == InitHandler /\ NoStream /\ NoLib /\ NoStore
Next == NextHandler
Spec == Init /\ [][Next]_vars

(***************************************************************************)
(* What a run yields when the whole body arrives as one chunk.             *)
(***************************************************************************)
WholeBody(var, enable, text) ==
    LET t1 == IF text = <<>> THEN T0 ELSE ProcessChunk(var, enable, T0, text)
    IN IF t1.exit = "none" THEN Finally(var, [t1 EXCEPT !.exit = "end"])
       ELSE Finally(var, t1)

\* the complete lines of a body that stand before its first [DONE] line
RECURSIVE UpToSentinel(_)
UpToSentinel(lines) ==
    IF lines = <<>> THEN <<>>
    ELSE IF startsWith(Head(lines), DataPrefix) /\ Trim(Tail(Head(lines))) = <<DoneToken>>
         THEN <<>>
         ELSE <<Head(lines)>> \o UpToSentinel(Tail(lines))

CompleteLines(text) ==
    LET segs == Split(text) IN SubSeq(segs, 1, Len(segs) - 1)

LinesBeforeSentinel(text) == UpToSentinel(CompleteLines(text))

\* the part of the body that reader.read() has handed over so far
BodyRead == SubSeq(fullText, 1, Len(fullText) - Len(upstream))

\* start(controller) has returned or thrown
Terminated == spc # "reading"

\* the reader of the output has stayed with it
Attended == ~cancelled

\* a whole data: [DONE] line has been read, so the loop has dispatched it
SentinelDispatched ==
    Len(LinesBeforeSentinel(BodyRead)) < Len(CompleteLines(BodyRead))

(***************************************************************************)
(* C1: in every run of either stream transformer controller.close() is     *)
(* invoked exactly once, whichever way the run ends (upstream end, a       *)
(* data: [DONE] line, a failing read), never a second time on an output    *)
(* that is already closed.                                                 *)
(***************************************************************************)
C1_CloseExactlyOnce == Terminated => closeCalls = 1

(***************************************************************************)
(* C2: on every exit path of either stream transformer the upstream        *)
(* reader's lock is released before the run ends: no terminated run has    *)
(* missed releaseLock.                                                     *)
(***************************************************************************)
C2_ReleasedOnEveryExit == (Terminated /\ Attended) => released

(***************************************************************************)
(* C3: after a data: [DONE] line was dispatched the transformer emits no   *)
(* further chunk and reads no further upstream chunk, also when later      *)
(* lines of the same chunk or later chunks are there; what was emitted     *)
(* before the sentinel stays in the output, in its order: each such chunk  *)
(* has been received by the reader of the output or is still queued for    *)
(* it.                                                                     *)
(***************************************************************************)
C3_SentinelStopsTheRun ==
    /\ [](SentinelDispatched /\ Attended =>
            /\ Terminated
            /\ exit = "sentinel"
            /\ out = ProcessLines(variant, enableSteps, T0,
                                  LinesBeforeSentinel(fullText)).out
            /\ delivered \o queue = out)
    /\ [][SentinelDispatched => (out' = out /\ upstream' = upstream)]_vars

(***************************************************************************)
(* C4: the output does not depend on how the upstream body is cut into     *)
(* chunks: every run that reads the body to its end or to its sentinel,    *)
(* its output not cancelled, emits the chunks that the body emits when it  *)
(* arrives as one chunk, so a line cut across chunks is dispatched once,   *)
(* whole.                                                                  *)
(***************************************************************************)
C4_ChunkingInsensitive ==
    (Terminated /\ Attended /\ exit \in {"end", "sentinel"}) =>
        out = WholeBody(variant, enableSteps, fullText).out

C4_Witness ==
    /\ Terminated
    /\ exit = "end"
    /\ carried
    /\ fullText = JoinLines(<<LineValue, LineStep>>)
    /\ variant = "generate"
    /\ out = <<TextChunk("hi"), StepChunk("s1", 0)>>

(***************************************************************************)
(* C10: with enableIntermediateSteps false the output of either variant    *)
(* holds no <intermediatestep> marker, whether the upstream line was a     *)
(* formatted tag line or an intermediate_data: line: its reader receives   *)
(* no chunk that carries one.                                              *)
(***************************************************************************)
C10_NoMarkerWhenDisabled ==
    ~enableSteps => \A i \in 1..Len(delivered) : ~IsMarker(delivered[i])

(***************************************************************************)
(* Notions the claims about the handler share.                             *)
(***************************************************************************)
Key(r) == combinedConversationId(req[r].in.conversationId)

\* request r came as far as the memo check of buildContextAwareRAGPayload
ReachedMemoCheck(r) ==
    /\ req[r].pc # "idle"
    /\ isCaRagEndpoint(req[r].in.httpEndpoint)
    /\ req[r].validated # {}
    /\ CaRagMessagesOk(req[r].in.messages)

IssuedInit(r) == req[r].initCall # "none"
IssuedMain(r) == req[r].mainCall # "none"
InitFailed(r) == req[r].initCall \in {"not ok", "network error"}

\* r2 arrived after r1 had been answered
Sequential(r1, r2) == r1 # r2 /\ req[r2].pc # "idle" /\ r1 \in req[r2].after

(***************************************************************************)
(* C5 as stated: every URL the handler calls while it handles a request,   *)
(* the CA-RAG /init URL included, has passed validateRequestURL before     *)
(* the call.                                                               *)
(***************************************************************************)
C5_EveryCallValidated ==
    \A r \in Slots :
        /\ IssuedInit(r) => req[r].initURL \in req[r].validated
        /\ IssuedMain(r) => req[r].main.url \in req[r].validated

(***************************************************************************)
(* C5 amended: every call is made after the request URL passed the         *)
(* validator, and the main call goes to that URL.  The /init URL is not    *)
(* given to the validator, whose path list would reject it; it has the     *)
(* protocol and host of the validated request URL.                         *)
(***************************************************************************)
C5_CallsFollowValidation ==
    \A r \in Slots :
        /\ IssuedMain(r) =>
              /\ req[r].main.url \in req[r].validated
              /\ validateRequestURL(env, req[r].main.url).isValid
        /\ IssuedInit(r) =>
              /\ req[r].validated # {}
              /\ req[r].initURL \notin req[r].validated
              /\ ~validateRequestURL(env, req[r].initURL).isValid
              /\ \A u \in req[r].validated :
                    /\ u.protocol = req[r].initURL.protocol
                    /\ u.host = req[r].initURL.host

C5_Witness ==
    /\ req[1].initCall = "ok"
    /\ req[1].mainCall = "ok"
    /\ req[1].status = 200

Rejected(r) ==
    LET url == RequestURL(ServerURL(env), req[r].in.httpEndpoint)
    IN /\ req[r].pc # "idle"
       /\ ServerURL(env) # Unset
       /\ url.ok
       /\ ~validateRequestURL(env, url).isValid

(***************************************************************************)
(* C6: when the validator rejects the constructed request URL the handler  *)
(* answers 403 and makes no outbound call for that request, neither the    *)
(* main one nor /init, and the memo set stays as it is.                    *)
(***************************************************************************)
C6_RejectionStopsTheRequest ==
    /\ [](\A r \in Slots :
            Rejected(r) =>
                /\ req[r].pc = "done"
                /\ req[r].status = 403
                /\ ~IssuedInit(r)
                /\ ~IssuedMain(r))
    /\ [][\A r \in Slots :
            (req[r].pc = "idle" /\ req'[r].status = 403) =>
                initializedConversations' = initializedConversations]_vars

C6_Witness ==
    /\ Rejected(1)
    /\ req[1].in.httpEndpoint = EpTraversal
    /\ req[1].status = 403
    /\ req[2].status = 200
    /\ initializedConversations # {}

HasReservedKey(r) ==
    LET parsed == ParseParameters(req[r].in.optionalGenerationParameters)
    IN /\ parsed.object
       /\ \E i \in 1..Len(parsed.keys) :
             parsed.keys[i] \in {"messages", "stream", "input_message"}

FirstReservedKey(r) ==
    LET keys == ParseParameters(req[r].in.optionalGenerationParameters).keys
        i == CHOOSE j \in 1..Len(keys) :
                /\ keys[j] \in {"messages", "stream", "input_message"}
                /\ \A k \in 1..(j - 1) : keys[k] \notin {"messages", "stream", "input_message"}
    IN keys[i]

(***************************************************************************)
(* C7: on CHAT and CHAT_STREAM, when optionalGenerationParameters parses   *)
(* to an object with a top-level key among messages, stream and            *)
(* input_message, the request that reaches the merge is answered 400       *)
(* naming the first such key, nothing is merged and no outbound request is *)
(* sent; no payload sent upstream carries a client value for such a key.   *)
(***************************************************************************)
C7_ReservedKeysNeverMerged ==
    \A r \in Slots :
        /\ ( /\ req[r].pc # "idle"
             /\ req[r].validated # {}
             /\ req[r].in.httpEndpoint \in {Endpoint("", CHAT), Endpoint("", CHAT_STREAM)}
             /\ HasReservedKey(r) ) =>
                /\ req[r].pc = "done"
                /\ req[r].status = 400
                /\ req[r].body =
                     <<"optionalGenerationParameters cannot override reserved field",
                       FirstReservedKey(r)>>
                /\ ~IssuedMain(r)
                /\ req[r].main.payload = NoPayload
        /\ \A f \in req[r].main.payload :
                f.from = "client" => f.key \notin {"messages", "stream", "input_message"}

C7_Witness ==
    /\ req[1].in.httpEndpoint = Endpoint("", CHAT_STREAM)
    /\ req[1].in.optionalGenerationParameters = OptTemperatureStream
    /\ req[1].status = 400
    /\ req[1].body = <<"optionalGenerationParameters cannot override reserved field", "stream">>

(***************************************************************************)
(* C8 as stated: a CA-RAG request issues /init exactly when its key is     *)
(* absent at its check, so two sequential requests for one conversation id *)
(* issue exactly one /init call in total.                                  *)
(***************************************************************************)
C8_OneInitForTwoSequentialRequests ==
    \A r1, r2 \in Slots :
        (Sequential(r1, r2) /\ ReachedMemoCheck(r1) /\ ReachedMemoCheck(r2)
            /\ Key(r1) = Key(r2)) =>
                Cardinality({r \in {r1, r2} : IssuedInit(r)}) = 1

(***************************************************************************)
(* C8 amended: a CA-RAG request that reaches the memo check issues /init   *)
(* exactly when its key is absent from the memo set at that moment.  Two   *)
(* sequential requests for one conversation id issue exactly one /init     *)
(* call in total when the first one's /init succeeded; a request issues    *)
(* its own /init when its key is absent, as for another conversation id;   *)
(* no request that starts after a success was recorded for its key issues  *)
(* /init again.                                                            *)
(***************************************************************************)
C8_InitIffKeyAbsent ==
    /\ \A r \in Slots :
          ReachedMemoCheck(r) => (IssuedInit(r) <=> Key(r) \notin req[r].memoSeen)
    /\ \A r \in Slots : ~ReachedMemoCheck(r) => ~IssuedInit(r)
    /\ \A r1, r2 \in Slots :
          (Sequential(r1, r2) /\ ReachedMemoCheck(r2) /\ req[r1].initCall = "ok") =>
              /\ Key(r1) \in req[r2].memoSeen
              /\ Key(r1) = Key(r2) =>
                    /\ ~IssuedInit(r2)
                    /\ Cardinality({r \in {r1, r2} : IssuedInit(r)}) = 1
              /\ (Key(r1) # Key(r2) /\ Key(r2) \notin req[r2].memoSeen) => IssuedInit(r2)

C8_Witness ==
    /\ Sequential(1, 2)
    /\ Key(1) = Key(2)
    /\ req[1].initCall = "ok"
    /\ req[1].status = 200
    /\ ReachedMemoCheck(2)
    /\ ~IssuedInit(2)
    /\ req[2].status = 200

(***************************************************************************)
(* C9: the memo set holds a key only if some /init call for that key       *)
(* returned success.  A failed /init (not ok, or a network failure) leaves *)
(* the set as it is, fails the request with the initialisation error and   *)
(* sends no main request, and the next request for the key calls /init     *)
(* again; a key is never removed.                                          *)
(***************************************************************************)
C9_MemoHoldsSuccessfulInits ==
    /\ [](/\ \A key \in initializedConversations :
               \E r \in Slots : Key(r) = key /\ req[r].initCall = "ok"
          /\ \A r \in Slots :
               InitFailed(r) =>
                  /\ req[r].pc = "done"
                  /\ req[r].status = 400
                  /\ req[r].body = <<"CA RAG initialization failed">>
                  /\ ~IssuedMain(r)
          /\ \A r1, r2 \in Slots :
               ( /\ Sequential(r1, r2) /\ ReachedMemoCheck(r2) /\ Key(r1) = Key(r2)
                 /\ InitFailed(r1)
                 /\ \A r3 \in Slots \ {r2} : Key(r3) = Key(r2) => req[r3].initCall # "ok" )
                    => IssuedInit(r2))
    /\ [][/\ initializedConversations \subseteq initializedConversations'
          /\ \A r \in Slots :
               (req[r].pc = "awaitInit" /\ req'[r].initCall \in {"not ok", "network error"})
                  => initializedConversations' = initializedConversations]_vars

C9_Witness ==
    /\ Sequential(1, 2)
    /\ Key(1) = Key(2)
    /\ req[1].initCall = "network error"
    /\ req[1].status = 400
    /\ req[2].initCall = "ok"
    /\ Key(2) \in initializedConversations

(***************************************************************************)
(* Notions the claims about single lines share.                            *)
(***************************************************************************)
IsDataLine(line) ==
    startsWith(line, DataPrefix) /\ Trim(Tail(line)) # <<DoneToken>>

\* the run read the body to its end, its output attended all the while
ReadToEnd == Terminated /\ Attended /\ exit = "end"
WholeLines == fullText = JoinLines(CompleteLines(fullText))

\* the first of the five content fields that is a non-empty string, if any
NonEmptyString(x) == x.t = "string" /\ x.v # ""
FirstNonEmptyString(obj) ==
    LET fields == <<obj.value, obj.output, obj.answer, obj.message, obj.delta>>
        hits == {i \in 1..5 : NonEmptyString(fields[i])}
    IN IF hits = {} THEN <<>>
       ELSE <<TextChunk(fields[CHOOSE i \in hits : \A j \in hits : i <= j].v)>>

RECURSIVE FirstStringsOf(_)
FirstStringsOf(lines) ==
    IF lines = <<>> THEN <<>>
    ELSE (IF JSONparse(Tail(Head(lines))).ok
          THEN FirstNonEmptyString(JSONparse(Tail(Head(lines))).obj)
          ELSE <<>>) \o FirstStringsOf(Tail(lines))

(***************************************************************************)
(* C11: for a data: line whose payload parses as JSON the transformer      *)
(* emits the first of value, output, answer, choices[0].message.content    *)
(* and choices[0].delta.content that is a non-empty string, passing over   *)
(* an earlier field that is absent, empty or not a string, and emits       *)
(* nothing only when none of the five is one: a run over a body of such    *)
(* lines emits exactly these texts, line by line.                          *)
(***************************************************************************)
C11_FirstNonEmptyStringWins ==
    ( /\ ReadToEnd
      /\ WholeLines
      /\ \A i \in 1..Len(CompleteLines(fullText)) :
            /\ IsDataLine(CompleteLines(fullText)[i])
            /\ JSONparse(Tail(CompleteLines(fullText)[i])).ok )
        => out = FirstStringsOf(CompleteLines(fullText))

(***************************************************************************)
(* C12: on both streaming endpoint families the upstream line              *)
(* data: {"value":"hi"}, delivered whole or cut across chunks, yields the  *)
(* output hi, and the two variants emit the same texts for the same body   *)
(* of data: lines.                                                         *)
(***************************************************************************)
C12_VariantsExtractTheSameText ==
    /\ (ReadToEnd /\ fullText = JoinLines(<<LineValue>>)) => out = <<TextChunk("hi")>>
    /\ ( /\ ReadToEnd
         /\ WholeLines
         /\ \A i \in 1..Len(CompleteLines(fullText)) :
               IsDataLine(CompleteLines(fullText)[i]) )
           => /\ out = WholeBody("generate", enableSteps, fullText).out
              /\ out = WholeBody("chat", enableSteps, fullText).out

(***************************************************************************)
(* Notions the claims about intermediate steps share.                      *)
(***************************************************************************)
RECURSIVE IndexesOf(_, _)
IndexesOf(chunks, kinds) ==
    IF chunks = <<>> THEN <<>>
    ELSE (IF Head(chunks).k \in kinds /\ IsMarker(Head(chunks))
          THEN <<Head(chunks).index>> ELSE <<>>) \o IndexesOf(Tail(chunks), kinds)

\* 0, 1, 2, ...: what a fresh counter hands out
CountsFromZero(ixs) == \A i \in 1..Len(ixs) : ixs[i] = i - 1

(***************************************************************************)
(* C13 as stated: the index values of all intermediate-step markers in the *)
(* output of one response come from the transformer's own counter, which   *)
(* starts fresh and is never reset, so they increase strictly in output    *)
(* order and none is an upstream value.                                    *)
(***************************************************************************)
C13_EveryMarkerIndexFromCounter ==
    CountsFromZero(IndexesOf(out, {"step", "line"}))

(***************************************************************************)
(* C13 amended: the markers that the transformer builds from               *)
(* intermediate_data: lines carry the values 0, 1, 2, ... of its own       *)
(* counter in output order, never the upstream index; the counter starts   *)
(* at 0 with the run, never goes down and, while the output is not         *)
(* cancelled, counts the built markers.  A tag line passed on verbatim     *)
(* keeps the index upstream wrote.                                         *)
(***************************************************************************)
C13_BuiltMarkerIndexFromCounter ==
    /\ [](/\ CountsFromZero(IndexesOf(out, {"step"}))
          /\ counter >= Len(IndexesOf(out, {"step"}))
          /\ Attended => counter = Len(IndexesOf(out, {"step"}))
          /\ \A i \in 1..Len(out) :
                out[i].k = "line" /\ (\E j \in 1..Len(out[i].v) : out[i].v[j] = TagText)
                    => out[i].index = 9)
    /\ [][counter' >= counter]_vars

C13_Witness ==
    /\ Terminated
    /\ variant = "generate"
    /\ fullText = JoinLines(<<LineStep, LineStep>>)
    /\ out = <<StepChunk("s1", 0), StepChunk("s1", 1)>>
    /\ counter = 2

BareDocumentText ==
    CASE Trim(fullText) = <<OutputDoc>> -> <<"42">>
      [] Trim(fullText) = <<ValueHead, ValueTail>> -> <<"hi">>
      [] Trim(fullText) = <<ValueOpen, NL, TaggedValue>> ->
           <<"<intermediatestep>{}</intermediatestep>">>
      [] OTHER -> <<>>

(***************************************************************************)
(* C14: on GENERATE_STREAM, when the upstream body has no data: or [DONE]  *)
(* framing and is one complete JSON document, with or without a newline    *)
(* behind it and however it is cut into chunks, the transformer emits the  *)
(* extracted text, trimmed, once, as its final chunk (its only chunk when  *)
(* the document is written on one line) and then closes: close() is called *)
(* once, start() succeeds, and the output is closed as soon as its reader, *)
(* who has not cancelled, has taken what was emitted.                      *)
(***************************************************************************)
C14_BareDocumentFallback ==
    (variant = "generate" /\ ReadToEnd /\ BareDocumentText # <<>>) =>
        /\ out # <<>>
        /\ out[Len(out)] = TextChunk(BareDocumentText[1])
        /\ \A i \in 1..(Len(out) - 1) : out[i].k # "text"
        /\ (\A i \in 1..Len(fullText) - 1 : fullText[i] # NL) => Len(out) = 1
        /\ finalAnswerSent
        /\ closeCalls = 1
        /\ released
        /\ startResult = "fulfilled"
        /\ delivered \o queue = out
        /\ streamState = IF queue = <<>> THEN "closed" ELSE "readable"

C14_Witness ==
    /\ variant = "generate"
    /\ ReadToEnd
    /\ fullText = JoinLines(<<LineBare>>)
    /\ delivered = <<TextChunk("42")>>
    /\ streamState = "closed"
    /\ spc = "settled"

C14_WitnessCutDocument ==
    /\ variant = "generate"
    /\ ReadToEnd
    /\ fullText = <<ValueHead, ValueTail>>
    /\ carried
    /\ out = <<TextChunk("hi")>>

NoContentLine(var, line) ==
    LET obj == JSONparse(Tail(line)).obj
        first == Or(obj.value, Or(obj.output, Or(obj.answer, Or(obj.message, obj.delta))))
    IN /\ startsWith(line, DataPrefix)
       /\ Trim(Tail(line)) # <<DoneToken>>
       /\ JSONparse(Tail(line)).ok
       /\ IF var = "generate" THEN ~NonEmptyString(first)
          ELSE ~Truthy(Or(obj.message, obj.delta))

DroppedLine(var, line) == MalformedLine(line) \/ NoContentLine(var, line)

RECURSIVE WithoutDropped(_, _)
WithoutDropped(var, lines) ==
    IF lines = <<>> THEN <<>>
    ELSE (IF DroppedLine(var, Head(lines)) THEN <<>> ELSE <<Head(lines)>>)
            \o WithoutDropped(var, Tail(lines))

NoSentinel == ~\E i \in 1..Len(fullText) : fullText[i] = DoneToken

C15_WitnessData ==
    /\ Terminated
    /\ fullText = JoinLines(<<LineBadData, LineDelta>>)
    /\ delivered = <<TextChunk("yo")>>
    /\ streamState = "closed"

(***************************************************************************)
(* C16: once the reader of the outbound response has cancelled it, the     *)
(* transformer reads no further upstream chunk, and it releases the        *)
(* upstream reader: it does not go on reading until upstream ends.         *)
(***************************************************************************)
C16_CancelStopsTheLoop ==
    /\ [][cancelled => upstream' = upstream]_vars
    /\ []((cancelled /\ Terminated) => released)

(***************************************************************************)
(* C17: first-time initialisation is not mutually exclusive.  A CA-RAG     *)
(* request that checks the memo set while another request for the same     *)
(* key is awaiting its /init answer, with no success yet recorded for the  *)
(* key, finds the key absent and issues /init as well, because the key is  *)
(* inserted only after the awaited answer.                                 *)
(***************************************************************************)
C17_ConcurrentFirstInitsBothCall ==
    [][\A r1, r2 \in Slots :
         ( /\ r1 # r2
           /\ req[r1].pc = "awaitInit"
           /\ req[r2].pc = "idle"
           /\ ReachedMemoCheck(r2)'
           /\ Key(r2)' = Key(r1)
           /\ \A r3 \in Slots : Key(r3) = Key(r1) => req[r3].initCall # "ok" )
            => /\ Key(r1) \notin initializedConversations
               /\ req'[r2].pc = "awaitInit"
               /\ req'[r2].initCall = "pending"
               /\ req'[r1].initCall = "pending"]_vars

C17_Witness ==
    /\ req[1].pc = "awaitInit"
    /\ req[2].pc = "awaitInit"
    /\ Key(1) = Key(2)
    /\ req[1].initCall = "pending"
    /\ req[2].initCall = "pending"
    /\ Key(1) \notin req[1].memoSeen \cup req[2].memoSeen
    /\ 1 \notin req[2].after
    /\ 2 \notin req[1].after

(***************************************************************************)
(* C18: on GENERATE, GENERATE_STREAM and CHAT_CA_RAG a request that        *)
(* reaches the payload builder with an empty message list, or with a last  *)
(* message that is not a user turn, is answered 400 and no main request    *)
(* is sent; on CHAT and CHAT_STREAM any role ordering is accepted and the   *)
(* transcript is forwarded.                                                *)
(***************************************************************************)
C18_LastMessageMustBeUserTurn ==
    \A r \in Slots :
        LET msgs == req[r].in.messages
            ep == req[r].in.httpEndpoint
        IN /\ ( /\ req[r].pc # "idle"
                /\ req[r].validated # {}
                /\ ep \in {Endpoint("", GENERATE), Endpoint("", GENERATE_STREAM),
                           Endpoint("", CHAT_CA_RAG)}
                /\ (msgs = <<>> \/ msgs[Len(msgs)].role # "user") )
                 => /\ req[r].pc = "done"
                    /\ req[r].status = 400
                    /\ ~IssuedMain(r)
           /\ ( /\ req[r].pc # "idle"
                /\ req[r].validated # {}
                /\ ep \in {Endpoint("", CHAT), Endpoint("", CHAT_STREAM)}
                /\ req[r].in.optionalGenerationParameters = OptEmpty )
                 => /\ IssuedMain(r)
                    /\ Field("messages", "server") \in req[r].main.payload

(***************************************************************************)
(* C19: an upstream failure, a non-2xx answer or a network failure, of the *)
(* main call or of the CA-RAG /init call, is answered 500 with a text      *)
(* body; 400 is answered only for an invalid request, invalid extra JSON   *)
(* or a reserved-field override, and 403 only for a URL validation         *)
(* failure.                                                                *)
(***************************************************************************)
C19_UpstreamFailureIs500 ==
    \A r \in Slots :
        /\ (InitFailed(r) \/ req[r].mainCall \in {"not ok", "network error"}) =>
              /\ req[r].status = 500
              /\ req[r].body # <<>>
        /\ req[r].status = 400 =>
              req[r].body[1] \in
                 {"Invalid URL construction",
                  "User message not found.",
                  "User message not found: messages array is empty or invalid.",
                  "Invalid additional JSON body format",
                  "optionalGenerationParameters cannot override reserved field"}
        /\ req[r].status = 403 => req[r].body[1] = "URL validation failed"

(***************************************************************************)
(* C20: one browser request issues at most one main upstream request and  *)
(* at most one /init request; after a failure of either call the handler   *)
(* answers with an error, and an answered request issues no further call.  *)
(***************************************************************************)
C20_AtMostOneCallEach ==
    \A r \in Slots :
        /\ req[r].initCalls <= 1
        /\ req[r].mainCalls <= 1
        /\ req[r].initCalls = (IF req[r].initCall = "none" THEN 0 ELSE 1)
        /\ req[r].mainCalls = (IF req[r].mainCall = "none" THEN 0 ELSE 1)
        /\ InitFailed(r) =>
              /\ req[r].pc = "done"
              /\ req[r].status >= 400
              /\ req[r].mainCalls = 0
        /\ req[r].mainCall \in {"not ok", "network error"} =>
              /\ req[r].pc = "done"
              /\ req[r].status >= 400

\* C20, as steps: an answered request is never touched again, and a call that
\* has settled is never pending again
C20_NoCallAfterTheAnswer ==
    [][\A r \in Slots :
          /\ req[r].pc = "done" => req'[r] = req[r]
          /\ req'[r].initCalls >= req[r].initCalls
          /\ req'[r].mainCalls >= req[r].mainCalls
          /\ req[r].initCall \notin {"none", "pending"} => req'[r].initCall = req[r].initCall
          /\ req[r].mainCall \notin {"none", "pending"} => req'[r].mainCall = req[r].mainCall]_vars

C20_Witness ==
    \E r \in Slots :
        /\ req[r].pc = "done"
        /\ req[r].initCall = "ok"
        /\ req[r].mainCall = "network error"
        /\ req[r].initCalls = 1
        /\ req[r].mainCalls = 1
        /\ req[r].status = 500

C20_WitnessInitFailed ==
    \E r \in Slots :
        /\ req[r].pc = "done"
        /\ req[r].initCall = "not ok"
        /\ req[r].initCalls = 1
        /\ req[r].mainCalls = 0
        /\ req[r].status = 400

(***************************************************************************)
(* Calls of the pure functions of the repository: the call is drawn in the *)
(* initial state and one step applies the function.                        *)
(***************************************************************************)
NoHandler ==
    /\ initializedConversations = {}
    /\ req = [r \in Slots |-> Idle]

\* URL strings handed to the validator, by what new URL() makes of them; the
\* parser lower-cases the scheme and resolves the dot segments of the path
LowerCase(written) == IF written = "HTTPS" THEN "https" ELSE written
ParseURL(written, username, host, segs) ==
    [ok |-> TRUE, written |-> written, protocol |-> LowerCase(written),
     username |-> username, host |-> host, path |-> RemoveDotSegments(segs, <<>>)]
Unparsable ==
    [ok |-> FALSE, written |-> "", protocol |-> "", username |-> "", host |-> "",
     path |-> <<>>]
URLStrings ==
    {ParseURL(w, u, h, p) :
        w \in {"http", "https", "ws", "wss", "ftp", "HTTPS"},
        u \in {"", "user:password"},
        h \in {BackendAddress, "evil.com:8000"},
        p \in HTTP_ENDPOINTS \cup {WEBSOCKET_PATH, <<"admin">>, <<"..", "admin">>,
                                   <<"chat", "..", "admin">>}}
        \cup {Unparsable}

ValidatorCalls == {[fn |-> "validateRequestURL", done |-> FALSE, url |-> u] : u \in URLStrings}

\* validateRequestURL(urlString)
ValidateRequestURL ==
    /\ call.fn = "validateRequestURL"
    /\ ~call.done
    /\ ret' = validateRequestURL(env, call.url)
    /\ call' = [call EXCEPT !.done = TRUE]
    /\ UNCHANGED <<streamVars, handlerVars, storeVars>>

(***************************************************************************)
(* The non-stream extractors.  A body is a text; JSON.parse is a table     *)
(* over the bodies and over the texts the extractors can return.           *)
(***************************************************************************)
Null == [t |-> "null", v |-> ""]
Obj(json) == [t |-> "object", v |-> json]

PlainBody == "hello"
CutBody == "{\"val"
ValueOutputBody == "{\"value\":\"a\",\"output\":\"b\"}"
OutputAnswerBody == "{\"output\":\"b\",\"answer\":\"c\"}"
AnswerChoicesBody == "{\"answer\":\"c\",\"choices\":[{\"message\":{\"content\":\"d\"}}]}"
ResultChoicesBody == "{\"result\":\"r\",\"choices\":[{\"message\":{\"content\":\"d\"}}]}"
ChoicesBody == "{\"choices\":[{\"message\":{\"content\":\"d\"}}]}"
ChoicesNoArrayBody == "{\"choices\":\"d\"}"
EmptyValueBody == "{\"value\":\"\",\"output\":\"b\"}"
NumberValueBody == "{\"value\":5}"
StatusBody == "{ \"status\": \"ok\" }"
StatusJSON == "{\"status\":\"ok\"}"
StringBody == "\"hi\""
NullBody == "null"
NumberBody == "5"
Bodies == {PlainBody, CutBody, ValueOutputBody, OutputAnswerBody, AnswerChoicesBody,
           ResultChoicesBody, ChoicesBody, ChoicesNoArrayBody, EmptyValueBody,
           NumberValueBody, StatusBody, StatusJSON, StringBody, NullBody, NumberBody}

\* what JSON.parse makes of a body: ok = FALSE stands for the SyntaxError; parsed
\* is the document, the other fields are parsed?.value, ..., Array.isArray(
\* parsed?.choices) and parsed.choices[0]?.message?.content
NoDocument == [ok |-> FALSE, parsed |-> Undef, value |-> Undef, output |-> Undef,
               answer |-> Undef, result |-> Undef, isArray |-> FALSE, content |-> Undef]
Document(json) == [NoDocument EXCEPT !.ok = TRUE, !.parsed = Obj(json)]
ParseBody(data) ==
    CASE data = ValueOutputBody ->
           [Document(data) EXCEPT !.value = Str("a"), !.output = Str("b")]
      [] data = OutputAnswerBody ->
           [Document(data) EXCEPT !.output = Str("b"), !.answer = Str("c")]
      [] data = AnswerChoicesBody ->
           [Document(data) EXCEPT !.answer = Str("c"), !.isArray = TRUE,
                                  !.content = Str("d")]
      [] data = ResultChoicesBody ->
           [Document(data) EXCEPT !.result = Str("r"), !.isArray = TRUE,
                                  !.content = Str("d")]
      [] data = ChoicesBody ->
           [Document(data) EXCEPT !.isArray = TRUE, !.content = Str("d")]
      [] data = ChoicesNoArrayBody -> Document(data)
      [] data = EmptyValueBody ->
           [Document(data) EXCEPT !.value = Str(""), !.output = Str("b")]
      [] data = NumberValueBody -> [Document(data) EXCEPT !.value = Num("5")]
      [] data \in {StatusBody, StatusJSON} -> Document(StatusJSON)
      [] data = StringBody -> [NoDocument EXCEPT !.ok = TRUE, !.parsed = Str("hi")]
      [] data = NullBody -> [NoDocument EXCEPT !.ok = TRUE, !.parsed = Null]
      [] data = NumberBody -> [NoDocument EXCEPT !.ok = TRUE, !.parsed = Num("5")]
      [] OTHER -> NoDocument

\* typeof x === 'string' ? x : JSON.stringify(x), as the body of new Response(...):
\* JSON.stringify(undefined) is undefined, which gives an empty body
ResponseText(x) ==
    CASE x.t = "string" -> x.v
      [] x.t = "number" -> x.v
      [] x.t = "object" -> x.v
      [] x.t = "null" -> "null"
      [] OTHER -> ""

Returned(text) == [threw |-> FALSE, body |-> text]
Threw == [threw |-> TRUE, body |-> ""]

\* Array.isArray(parsed?.choices) ? parsed.choices[0]?.message?.content : null
ChoicesContent(p) == IF p.isArray THEN p.content ELSE Null

\* an extractor whose JSON.parse is not inside a try block
processGenerateWithoutCatch(data) ==
    LET p == ParseBody(data)
    IN IF ~p.ok THEN Threw
       ELSE Returned(ResponseText(Or(Or(Or(p.value, p.output), p.answer),
                                     ChoicesContent(p))))

processGenerate(data) ==
    LET p == ParseBody(data)
    IN IF ~p.ok THEN Returned(data)
       ELSE Returned(ResponseText(Or(Or(Or(p.value, p.output), p.answer),
                                     ChoicesContent(p))))

processChat(data) ==
    LET p == ParseBody(data)
    IN IF ~p.ok THEN Returned(data)
       ELSE Returned(ResponseText(
                Or(Or(Or(Or(Or(p.output, p.answer), p.value), ChoicesContent(p)),
                      p.parsed),
                   Str(data))))

processContextAwareRAG(data) ==
    LET p == ParseBody(data)
    IN IF ~p.ok THEN Returned(data)
       ELSE Returned(ResponseText(
                Or(Or(Or(p.result, ChoicesContent(p)), p.parsed), Str(data))))

Extractors == {"processGenerate", "processChat", "processContextAwareRAG"}
Extractor(fn, data) ==
    CASE fn = "processGenerate" -> processGenerate(data)
      [] fn = "processChat" -> processChat(data)
      [] OTHER -> processContextAwareRAG(data)

ExtractorCalls ==
    {[fn |-> f, done |-> FALSE, again |-> FALSE, data |-> d, first |-> ""] :
        f \in Extractors, d \in Bodies}

\* the handler's dispatch to a non-stream extractor, on the body of the response
Extract ==
    /\ call.fn \in Extractors
    /\ ~call.done
    /\ ret' = Extractor(call.fn, call.data)
    /\ call' = [call EXCEPT !.done = TRUE]
    /\ UNCHANGED <<streamVars, handlerVars, storeVars>>

\* the same extractor on the text it returned
ExtractAgain ==
    /\ call.fn \in Extractors
    /\ call.done
    /\ ~call.again
    /\ ~ret.threw
    /\ ret' = Extractor(call.fn, ret.body)
    /\ call' = [call EXCEPT !.again = TRUE, !.first = ret.body]
    /\ UNCHANGED <<streamVars, handlerVars, storeVars>>

(***************************************************************************)
(* utils/app/conversation.ts: what saveConversation keeps of the messages. *)
(* A message is its role and its position in the conversation.             *)
(***************************************************************************)
MAX_MESSAGES_PER_CONVERSATION == 24

\* conversations whose turns alternate, opened by the user or by the assistant
Conversation(n, first) ==
    [i \in 1..n |->
        [role |-> IF (i % 2 = 1) = (first = "user") THEN "user" ELSE "assistant",
         position |-> i]]
Conversations == {Conversation(n, first) : n \in 0..MaxMessages,
                                           first \in {"user", "assistant"}}

\* Math.max(0, Math.round(MAX_MESSAGES_PER_CONVERSATION / 2))
HalfRounded(n) == (n + 1) \div 2

\* truncateMessages; messages[remove_count] of the source is the message at
\* position remove_count + 1
truncateMessages(messages) ==
    IF Len(messages) <= MAX_MESSAGES_PER_CONVERSATION THEN messages
    ELSE LET half == HalfRounded(MAX_MESSAGES_PER_CONVERSATION)
             remove_count ==
                 IF half < Len(messages) /\ messages[half + 1].role = "user"
                 THEN half - 1 ELSE half
         IN SubSeq(messages, remove_count + 1, Len(messages))

SaveCalls == {[fn |-> "saveConversation", done |-> FALSE, messages |-> m] :
                 m \in Conversations}

\* saveConversation: the messages written to sessionStorage
SaveConversation ==
    /\ call.fn = "saveConversation"
    /\ ~call.done
    /\ ret' = truncateMessages(call.messages)
    /\ call' = [call EXCEPT !.done = TRUE]
    /\ UNCHANGED <<streamVars, handlerVars, storeVars>>

LibCalls == ValidatorCalls \cup ExtractorCalls \cup SaveCalls

InitLib ==
    /\ env \in Environments
    /\ call \in LibCalls
    /\ ret = <<>>
    /\ NoHandler
    /\ NoStream
    /\ NoStore

NextLib == ValidateRequestURL \/ Extract \/ ExtractAgain \/ SaveConversation

SpecLib == InitLib /\ [][NextLib]_vars

Validated == call.fn = "validateRequestURL" /\ call.done
AllowedProtocols(e) ==
    IF e.NODE_ENV = "production" THEN {"https", "wss"}
    ELSE {"http", "https", "ws", "wss"}

(***************************************************************************)
(* C21: validateRequestURL accepts a URL if and only if its host equals    *)
(* the configured backend host, its protocol is https or wss in production *)
(* (http, https, ws or wss otherwise) and its resolved path is one of the  *)
(* endpoint paths or the WebSocket path.                                   *)
(***************************************************************************)
C21_AcceptsIffHostProtocolPath ==
    Validated =>
        (ret.isValid <=>
            /\ call.url.ok
            /\ env.NEXT_PUBLIC_NAT_BACKEND_ADDRESS # ""
            /\ call.url.host = env.NEXT_PUBLIC_NAT_BACKEND_ADDRESS
            /\ call.url.protocol \in AllowedProtocols(env)
            /\ call.url.path \in HTTP_ENDPOINTS \cup {WEBSOCKET_PATH})

(***************************************************************************)
(* C22: the validator rejects every URL that carries credentials           *)
(* (user:password@host), also when its host, protocol and path are         *)
(* allowed.                                                                *)
(***************************************************************************)
C22_CredentialsRejected ==
    (Validated /\ call.url.ok /\ call.url.username # "") => ~ret.isValid

Extracted == call.fn \in Extractors /\ call.done /\ ~call.again
ExtractedAgain == call.fn \in Extractors /\ call.again
NotJSON(text) == ~ParseBody(text).ok

(***************************************************************************)
(* C23: the non-stream extractors never throw; a body that is not valid    *)
(* JSON is returned unchanged, so an extractor applied to its own non-JSON *)
(* output returns that text again.                                         *)
(***************************************************************************)
C23_NonJSONBodyUnchanged ==
    /\ call.fn \in Extractors /\ call.done => ~ret.threw
    /\ (Extracted /\ NotJSON(call.data)) => ret = Returned(call.data)
    /\ (ExtractedAgain /\ NotJSON(call.first)) => ret = Returned(call.first)

C23_Witness ==
    /\ ExtractedAgain
    /\ call.data = ValueOutputBody
    /\ call.first \in {"a", "b"}
    /\ ret = Returned(call.first)

C23_WitnessRawBody ==
    /\ Extracted
    /\ call.data = CutBody
    /\ ret = Returned(CutBody)

\* the first truthy of value, output, answer, choices[0].message.content
FirstOfValueOutputAnswer(p) ==
    Or(Or(Or(p.value, p.output), p.answer), ChoicesContent(p))

(***************************************************************************)
(* C24: for the generate and the chat family the extractor returns the     *)
(* first present of value, output, answer, choices[0].message.content, in  *)
(* this order; the chat family then falls back to the parsed object and    *)
(* then to the raw text; the CA-RAG family probes result, then             *)
(* choices[0].message.content, then the parsed object, then the raw text.  *)
(***************************************************************************)
C24_ProbeOrder ==
    (Extracted /\ ParseBody(call.data).ok) =>
        LET p == ParseBody(call.data)
            first == FirstOfValueOutputAnswer(p)
        IN CASE call.fn = "processGenerate" ->
                  Truthy(first) => ret = Returned(ResponseText(first))
             [] call.fn = "processChat" ->
                  ret = Returned(ResponseText(Or(Or(first, p.parsed), Str(call.data))))
             [] OTHER ->
                  ret = Returned(ResponseText(
                            Or(Or(Or(p.result, ChoicesContent(p)), p.parsed),
                               Str(call.data))))

(***************************************************************************)
(* C25: on GENERATE_STREAM the whole-body fallback chunk is emitted only   *)
(* when no [DONE] line was seen and nothing was emitted before it in that  *)
(* response, and at most once; on CHAT_STREAM it is never emitted.         *)
(* finalAnswerSent is set exactly when the fallback chunk is enqueued,     *)
(* which is the last thing a run can enqueue.                              *)
(***************************************************************************)
C25_FallbackOnlyAlone ==
    finalAnswerSent =>
        /\ variant = "generate"
        /\ exit # "sentinel"
        /\ Len(out) = 1

\* the last line of the body when no newline ends it, and the body before it
UnterminatedTail == LET segs == Split(fullText) IN segs[Len(segs)]
BodyWithoutTail == SubSeq(fullText, 1, Len(fullText) - Len(UnterminatedTail))
\* what a run has emitted from lines: all but the chunk of the whole-body fallback
LineOutput(t) ==
    IF t.finalAnswerSent THEN SubSeq(t.out, 1, Len(t.out) - 1) ELSE t.out

(***************************************************************************)
(* C26: when the upstream ends while the buffer holds a last line that no  *)
(* newline ended, that line is never dispatched: it stays in the buffer,   *)
(* the lines' output is that of the body without it, a data: frame left    *)
(* there gives no output on either variant, and beyond the lines' output   *)
(* only the whole-body fallback of GENERATE_STREAM emits.                  *)
(***************************************************************************)
C26_UnterminatedTailNotDispatched ==
    (ReadToEnd /\ UnterminatedTail # <<>>) =>
        /\ buffer = UnterminatedTail
        /\ LineOutput(Cur) = LineOutput(WholeBody(variant, enableSteps, BodyWithoutTail))
        /\ variant = "chat" => ~finalAnswerSent
        /\ fullText = LineValue => out = <<>>

C26_Witness ==
    /\ ReadToEnd
    /\ fullText = JoinLines(<<LineDelta>>) \o LineValue
    /\ buffer = LineValue
    /\ out = <<TextChunk("yo")>>

C26_WitnessOnlyTail ==
    /\ ReadToEnd
    /\ variant = "generate"
    /\ fullText = LineValue
    /\ out = <<>>

(***************************************************************************)
(* C27: once the upstream has ended, failed or delivered a data: [DONE]    *)
(* line the transformer goes forward to its closed state and stays there,  *)
(* reading and emitting nothing more, and the output ends closed: it is    *)
(* never errored.                                                          *)
(***************************************************************************)
C27_OutputEndsClosed ==
    /\ streamState # "errored"
    /\ spc = "settled" => (closeCalls >= 1 /\ (queue = <<>> => streamState = "closed"))

(***************************************************************************)
(* pages/api/update-data-stream.ts: the store of live texts and finalized  *)
(* entries, and its handler.  A field the request body lacks is undefined; *)
(* stream_id and timestamp are given by "" and 0 when they are missing.    *)
(***************************************************************************)
Texts == {Str("hello"), Num("5")}
Uuids == {"abc", "def"}
PostBodies ==
    [text : Texts, stream_id : {"", "mic1"}, timestamp : {0, 2},
     finalized : BOOLEAN, uuid : {"", "abc"}]
\* what Date.now() returns when the body has no timestamp
Clock == {1}
Bool(b) == [t |-> "boolean", v |-> b]
PatchBodies ==
    [uuid : {""} \cup Uuids, pending : {Str("true"), Bool("true"), Bool("false")}]

\* a.stream_id.localeCompare(b.stream_id), then timestampA - timestampB
StreamRank(id) == IF id = "default" THEN 1 ELSE 2
Compare(a, b) ==
    IF a.stream_id # b.stream_id THEN StreamRank(a.stream_id) - StreamRank(b.stream_id)
    ELSE a.timestamp - b.timestamp

\* Array.prototype.sort is stable: an entry goes behind every entry that does not
\* compare greater than it
RECURSIVE InsertStable(_, _)
InsertStable(sorted, e) ==
    IF sorted = <<>> THEN <<e>>
    ELSE IF Compare(sorted[Len(sorted)], e) <= 0 THEN Append(sorted, e)
    ELSE Append(InsertStable(SubSeq(sorted, 1, Len(sorted) - 1), e), sorted[Len(sorted)])
RECURSIVE SortEntries(_)
SortEntries(entries) ==
    IF entries = <<>> THEN <<>>
    ELSE InsertStable(SortEntries(SubSeq(entries, 1, Len(entries) - 1)),
                      entries[Len(entries)])

\* a handler that empties the live text of every stream
ClearAllLiveTexts(texts, streamId) ==
    [id \in StoreStreamIds |->
        IF texts[id].present THEN [texts[id] EXCEPT !.text = ""] ELSE texts[id]]

\* if (streamTexts[streamId]) { streamTexts[streamId].text = ''; }
ClearLiveText(texts, streamId) ==
    IF texts[streamId].present THEN [texts EXCEPT ![streamId].text = ""] ELSE texts

Reply(status, method) == [NoResponse EXCEPT !.status = status, !.method = method]
PostReply(status, body, streamId) ==
    [Reply(status, "POST") EXCEPT !.finalized = body.finalized, !.stream = streamId]
PatchReply(status, body) ==
    [Reply(status, "PATCH") EXCEPT !.uuid = body.uuid,
                                   !.pending = (body.pending = Bool("true"))]

\* POST
Post ==
    \E body \in PostBodies, now \in Clock :
        LET streamId == IF body.stream_id = "" THEN "default" ELSE body.stream_id
            currentTimestamp == IF body.timestamp = 0 THEN now ELSE body.timestamp
            finalizedEntry == [text |-> body.text.v, stream_id |-> streamId,
                               timestamp |-> currentTimestamp,
                               id |-> <<streamId, currentTimestamp, "r">>,
                               uuid |-> body.uuid, pending |-> TRUE]
        IN /\ IF ~IsString(body.text)
              THEN /\ reply' = Reply(400, "POST")
                   /\ UNCHANGED <<streamTexts, finalizedEntries>>
              ELSE IF body.finalized
              THEN /\ Len(finalizedEntries) < MaxEntries
                   /\ finalizedEntries' =
                          SortEntries(Append(finalizedEntries, finalizedEntry))
                   /\ streamTexts' = ClearLiveText(streamTexts, streamId)
                   /\ reply' = PostReply(200, body, streamId)
              ELSE /\ streamTexts' =
                          [streamTexts EXCEPT ![streamId] =
                              [present |-> TRUE, text |-> body.text.v,
                               timestamp |-> currentTimestamp]]
                   /\ reply' = PostReply(200, body, streamId)
                   /\ UNCHANGED finalizedEntries
           /\ UNCHANGED <<streamVars, handlerVars, libVars>>

\* finalizedEntries.findIndex(entry => entry.uuid === uuid): 0 stands for -1
FindIndex(entries, uuid) ==
    IF \E i \in 1..Len(entries) : entries[i].uuid = uuid
    THEN CHOOSE i \in 1..Len(entries) :
            /\ entries[i].uuid = uuid
            /\ \A j \in 1..(i - 1) : entries[j].uuid # uuid
    ELSE 0

\* PATCH
Patch ==
    \E body \in PatchBodies :
        LET entryIndex == FindIndex(finalizedEntries, body.uuid)
        IN /\ IF body.uuid = "" \/ body.pending.t # "boolean"
              THEN /\ reply' = Reply(400, "PATCH")
                   /\ UNCHANGED finalizedEntries
              ELSE IF entryIndex = 0
              THEN /\ reply' = Reply(404, "PATCH")
                   /\ UNCHANGED finalizedEntries
              ELSE /\ finalizedEntries' =
                          [finalizedEntries EXCEPT
                              ![entryIndex].pending = (body.pending.v = "true")]
                   /\ reply' = PatchReply(200, body)
           /\ UNCHANGED <<streamTexts, streamVars, handlerVars, libVars>>

\* GET, in its four forms: the store is only read
Get ==
    /\ reply' = Reply(200, "GET")
    /\ UNCHANGED <<streamTexts, finalizedEntries, streamVars, handlerVars, libVars>>

InitStore ==
    /\ env = Environment("development", Unset, BackendAddress)
    /\ NoHandler
    /\ NoStream
    /\ NoLib
    /\ NoStore

NextStore == Post \/ Patch \/ Get

SpecStore == InitStore /\ [][NextStore]_vars

\* a sequence without its i-th element
WithoutIndex(seq, i) == SubSeq(seq, 1, i - 1) \o SubSeq(seq, i + 1, Len(seq))
Posted == reply.method = "POST" /\ reply.status = 200
Patched == reply.method = "PATCH" /\ reply.status = 200

(***************************************************************************)
(* C28: a POST with finalized = true appends exactly one finalized entry,  *)
(* with pending = true, and empties the live text of its stream only; a    *)
(* POST without finalized overwrites the live text of its stream only;     *)
(* neither changes an existing finalized entry or the live text of another *)
(* stream, and no request of any kind removes a finalized entry.           *)
(***************************************************************************)
C28_PostFrame ==
    [][/\ (reply'.method = "POST" /\ reply'.status = 200 /\ reply'.finalized) =>
             /\ Len(finalizedEntries') = Len(finalizedEntries) + 1
             /\ \E i \in 1..Len(finalizedEntries') :
                   /\ finalizedEntries'[i].pending
                   /\ finalizedEntries'[i].stream_id = reply'.stream
                   /\ WithoutIndex(finalizedEntries', i) = finalizedEntries
             /\ \A id \in StoreStreamIds :
                   streamTexts'[id] =
                       IF id = reply'.stream /\ streamTexts[id].present
                       THEN [streamTexts[id] EXCEPT !.text = ""]
                       ELSE streamTexts[id]
       /\ (reply'.method = "POST" /\ reply'.status = 200 /\ ~reply'.finalized) =>
             /\ finalizedEntries' = finalizedEntries
             /\ streamTexts'[reply'.stream].present
             /\ streamTexts'[reply'.stream].text = "hello"
             /\ \A id \in StoreStreamIds \ {reply'.stream} :
                   streamTexts'[id] = streamTexts[id]
       /\ Len(finalizedEntries') >= Len(finalizedEntries)
       /\ \A i \in 1..Len(finalizedEntries) : \E j \in 1..Len(finalizedEntries') :
             [finalizedEntries'[j] EXCEPT !.pending = TRUE] =
                 [finalizedEntries[i] EXCEPT !.pending = TRUE]]_vars

C28_Witness ==
    /\ Posted
    /\ reply.finalized
    /\ reply.stream = "mic1"
    /\ Len(finalizedEntries) = 2
    /\ finalizedEntries[1].stream_id = "default"
    /\ ~finalizedEntries[1].pending
    /\ streamTexts["mic1"].present /\ streamTexts["mic1"].text = ""
    /\ streamTexts["default"].text = "hello"

(***************************************************************************)
(* C29: after a successful PATCH {uuid, pending: p} every finalized entry  *)
(* with that uuid has pending = p; a PATCH without uuid or with a pending  *)
(* that is not a boolean is answered 400, one with an unknown uuid 404,    *)
(* and these leave the store unchanged.                                    *)
(***************************************************************************)
C29_PatchSetsEveryEntry ==
    Patched =>
        \A i \in 1..Len(finalizedEntries) :
            finalizedEntries[i].uuid = reply.uuid =>
                finalizedEntries[i].pending = reply.pending

Saved == call.fn = "saveConversation" /\ call.done

(***************************************************************************)
(* C30: for every input length truncateMessages returns a suffix of the    *)
(* input, the most recent messages in their order, of at most              *)
(* MAX_MESSAGES_PER_CONVERSATION (24) messages, so a saved conversation    *)
(* never holds more than the limit.                                        *)
(***************************************************************************)
C30_SavedWithinTheLimit ==
    Saved =>
        /\ Len(ret) <= Len(call.messages)
        /\ ret = SubSeq(call.messages, Len(call.messages) - Len(ret) + 1,
                        Len(call.messages))
        /\ Len(ret) <= MAX_MESSAGES_PER_CONVERSATION

====
